---- MODULE Spec2Model ----
(***************************************************************************)
(* Catchment analysis dashboard (src/streamlit_app.py): load_clinics,      *)
(* extract_osm_metrics, compute_scores and the main flow that chains them. *)
(*                                                                         *)
(* Floating-point values are modelled as exact rationals [nan, n, d] in    *)
(* lowest terms (d > 0), plus one NaN value that propagates through the    *)
(* arithmetic the way numpy's NaN does.                                    *)
(***************************************************************************)
EXTENDS Integers, Sequences, FiniteSets, TLC

(***************************************************************************)
(* Bounds of the model.                                                    *)
(***************************************************************************)
\* number of rows of the uploaded clinic CSV
NumLocs == 2
\* longest record set handed to compute_scores when it is checked on its own
MaxRecords == 3

(***************************************************************************)
(* Float arithmetic (Python floats, numpy float64 columns).                *)
(***************************************************************************)
Abs(x) == IF x < 0 THEN -x ELSE x

RECURSIVE GCD(_, _)
GCD(a, b) == IF b = 0 THEN a ELSE GCD(b, a % b)

Rat(n, d) ==
    LET g == GCD(Abs(n), Abs(d))
        s == IF d < 0 THEN -1 ELSE 1
    IN  [nan |-> FALSE, n |-> s * (n \div g), d |-> s * (d \div g)]

NaN == [nan |-> TRUE, n |-> 0, d |-> 1]

Zero == Rat(0, 1)

FAdd(a, b) == IF a.nan \/ b.nan THEN NaN ELSE Rat(a.n * b.d + b.n * a.d, a.d * b.d)

FSub(a, b) == IF a.nan \/ b.nan THEN NaN ELSE Rat(a.n * b.d - b.n * a.d, a.d * b.d)

FMul(a, b) == IF a.nan \/ b.nan THEN NaN ELSE Rat(a.n * b.n, a.d * b.d)

\* Series / scalar: numpy gives NaN for 0/0 and raises nothing.  In line 71
\* the divisor is 0 only when every value equals the minimum, so the
\* numerator is 0 as well.
FDiv(a, b) ==
    IF a.nan \/ b.nan THEN NaN
    ELSE IF b.n = 0 THEN NaN
    ELSE Rat(a.n * b.d, a.d * b.n)

\* IEEE comparisons: every comparison with NaN is false
FLess(a, b) == ~a.nan /\ ~b.nan /\ a.n * b.d < b.n * a.d

FEq(a, b) == ~a.nan /\ ~b.nan /\ a.n * b.d = b.n * a.d

FLeq(a, b) == FLess(a, b) \/ FEq(a, b)

(***************************************************************************)
(* compute_scores                                                          *)
(***************************************************************************)
\* the keys of the weights dict, in insertion order
Metrics == <<"buildings", "competitors", "road_density", "playschools", "public_transport">>

MetricSet == {Metrics[j] : j \in 1..Len(Metrics)}

weights ==
    [k \in MetricSet |->
        CASE k = "buildings" -> Rat(2, 10)
          [] k = "competitors" -> Rat(-3, 10)
          [] k = "road_density" -> Rat(2, 10)
          [] k = "playschools" -> Rat(1, 10)
          [] k = "public_transport" -> Rat(2, 10)]

\* f'{k}_score'
ScoreCol(k) ==
    CASE k = "buildings" -> "buildings_score"
      [] k = "competitors" -> "competitors_score"
      [] k = "road_density" -> "road_density_score"
      [] k = "playschools" -> "playschools_score"
      [] k = "public_transport" -> "public_transport_score"

\* the non-NaN values of column k (pandas min/max/sum skip NaN by default)
Values(df, k) == {df[i][k] : i \in {j \in 1..Len(df) : ~df[j][k].nan}}

\* df2[k].min()
ColMin(df, k) ==
    IF Values(df, k) = {} THEN NaN
    ELSE CHOOSE v \in Values(df, k) : \A u \in Values(df, k) : FLeq(v, u)

\* df2[k].max()
ColMax(df, k) ==
    IF Values(df, k) = {} THEN NaN
    ELSE CHOOSE v \in Values(df, k) : \A u \in Values(df, k) : FLeq(u, v)

\* a pandas Series: the values of f at the rows 1..n, in row order
RECURSIVE Series(_, _)
Series(f, n) == IF n = 0 THEN <<>> ELSE Append(Series(f, n - 1), f[n])

\* a plausible slip: normalise by the maximum instead of the range
normByMax(df, k) ==
    LET lo == ColMin(df, k)
        hi == ColMax(df, k)
    IN  Series([i \in 1..Len(df) |-> FDiv(FSub(df[i][k], lo), hi)], Len(df))

\* line 71: norm=(df2[k]-df2[k].min())/(df2[k].max()-df2[k].min())
norm(df, k) ==
    LET lo == ColMin(df, k)
        range == FSub(ColMax(df, k), lo)
    IN  Series([i \in 1..Len(df) |-> FDiv(FSub(df[i][k], lo), range)], Len(df))

\* line 72: norm*w
sub_score(df, k) ==
    LET nm == norm(df, k)
    IN  Series([i \in 1..Len(df) |-> FMul(nm[i], weights[k])], Len(df))

\* DataFrame.sum(axis=1): skipna=True, an all-NaN row sums to 0
RECURSIVE SumSkipNa(_)
SumSkipNa(s) ==
    IF s = <<>> THEN Zero
    ELSE IF Head(s).nan THEN SumSkipNa(Tail(s))
    ELSE FAdd(Head(s), SumSkipNa(Tail(s)))

\* line 73: the sum over the score columns, in the order of the weights
total_score(score, n) ==
    Series([i \in 1..n |-> SumSkipNa([j \in 1..Len(Metrics) |-> score[j][i]])], n)

\* a plausible slip: rank(method='min'), competition ranking
rankMin(tot) ==
    Series([i \in 1..Len(tot) |->
               Rat(1 + Cardinality({j \in 1..Len(tot) : FLess(tot[i], tot[j])}), 1)],
           Len(tot))

\* line 74: Series.rank(ascending=False), method='average' by default: a group
\* of tied values shares the mean of the positions it occupies
rank(tot) ==
    Series([i \in 1..Len(tot) |->
               LET greater == Cardinality({j \in 1..Len(tot) : FLess(tot[i], tot[j])})
                   equal == Cardinality({j \in 1..Len(tot) : FEq(tot[i], tot[j])})
               IN  Rat(2 * greater + equal + 1, 2)],
           Len(tot))

\* lines 67-75
compute_scores(df) ==
    LET score == Series([j \in 1..Len(Metrics) |-> sub_score(df, Metrics[j])], Len(Metrics))
        tot == total_score(score, Len(df))
        rk == rank(tot)
    IN  Series([i \in 1..Len(df) |->
                   [buildings_score |-> score[1][i],
                    competitors_score |-> score[2][i],
                    road_density_score |-> score[3][i],
                    playschools_score |-> score[4][i],
                    public_transport_score |-> score[5][i],
                    total_score |-> tot[i],
                    rank |-> rk[i]] @@ df[i]],
               Len(df))

(***************************************************************************)
(* Geometry: a shapely/geopandas geometry with the frame (EPSG code) its   *)
(* coordinates are expressed in.  lat is the latitude of its centre, m2    *)
(* the ground area it covers in square metres (0 for a point and for an    *)
(* empty polygon), finite whether its coordinates are finite numbers.      *)
(***************************************************************************)
Geographic == 4326

Projected == 3857

\* gpd.points_from_xy(df['long'], df['lat']) with crs="EPSG:4326"
points_from_xy(long, lat) == [crs |-> Geographic, lat |-> lat, finite |-> TRUE, m2 |-> 0]

\* to_crs(epsg=...): Web Mercator has no finite image of a latitude at or
\* beyond the poles; pyproj returns inf there and raises nothing
to_crs(g, epsg) ==
    [g EXCEPT !.crs = epsg,
              !.finite = g.finite /\ (epsg = Projected => (g.lat > -90 /\ g.lat < 90))]

\* geometry.buffer(meters): a disc of that radius in the units of the frame
\* the geometry is in (pi taken as 3); of a non-finite point, an empty polygon
buffer(g, meters) == [g EXCEPT !.m2 = IF g.finite THEN 3 * meters * meters ELSE 0]

\* a plausible slip: take the area of the polygon the queries were issued with
areaGeometryNoReproject(poly) == poly

\* line 52: poly.to_crs(epsg=3857)
areaGeometry(poly) == to_crs(poly, Projected)

\* .area: in the units of the frame, square metres only in the projected one
\* (a square degree is about 12392 square kilometres)
area(g) == IF g.crs = Projected THEN g.m2 ELSE (g.m2 \div 1000000) \div 12392

(***************************************************************************)
(* Inputs                                                                  *)
(***************************************************************************)
Names == <<"A", "B", "C", "D", "E">>

\* (lat, long) of a CSV row: in range, latitude out of range, longitude out of range
Coords == {<<10, 20>>, <<95, 20>>, <<10, 200>>}

\* line 33: the rows pd.read_csv can return
CsvInputs ==
    {[i \in 1..NumLocs |-> [name |-> Names[i], lat |-> c[i][1], long |-> c[i][2]]] :
        c \in [1..NumLocs -> Coords]}

\* what OpenStreetMap holds under one buffer polygon: feature counts and the
\* total edge length (metres) of the drivable network
OsmAnswers ==
    { [buildings |-> 100, competitors |-> 1, road_m |-> 54000, playschools |-> 2,
       public_transport |-> 3],
      [buildings |-> 50, competitors |-> 3, road_m |-> 27000, playschools |-> 0,
       public_transport |-> 1] }

NoAnswer ==
    [buildings |-> 0, competitors |-> 0, road_m |-> 0, playschools |-> 0,
     public_transport |-> 0]

\* lines 38, 86
Radii == <<3, 5, 6>>

RadiusSet == {Radii[j] : j \in 1..Len(Radii)}

NoGeometry == [crs |-> Geographic, lat |-> 0, finite |-> TRUE, m2 |-> 0]

NoLocals ==
    [poly |-> NoGeometry, bldgs |-> 0, comps |-> 0, length_km |-> Zero,
     area_km2 |-> Zero, schools |-> 0, pts |-> 0]

\* the record sets compute_scores is checked on as a function of its argument
ScoreRows ==
    {[buildings |-> Rat(b, 1), competitors |-> Rat(c, 1), road_density |-> Rat(t[1], 1),
      playschools |-> Rat(t[2], 1), public_transport |-> Rat(t[3], 1)] :
        b \in {50, 75, 100}, c \in {1, 3}, t \in {<<2, 0, 1>>, <<5, 2, 3>>, <<5, 0, 3>>}}

\* a record set of n rows: DataFrame rows with the columns of lines 56-62
ScoreInput(rows, n) ==
    [i \in 1..n |-> [clinic |-> Names[i], radius_km |-> Radii[1]] @@ rows[i]]

(***************************************************************************)
(* State                                                                   *)
(***************************************************************************)
VARIABLES
    csv,          \* the uploaded clinic table
    pc,           \* position of the main flow
    clinics,      \* load_clinics' result (gdf_proj)
    ri,           \* index in Radii of the running extract_osm_metrics call
    row,          \* index of the row iterrows is at
    step,         \* position in the loop body of extract_osm_metrics
    osm,          \* what OpenStreetMap holds under the current polygon
    loc,          \* locals of the loop body
    records,      \* extract_osm_metrics' records list
    frames,       \* the DataFrames returned so far (the list of line 86)
    all_metrics,  \* line 86
    scores,       \* line 87
    geomOps,      \* history: each geometric operation with the frame it ran in
    error         \* the exception that ended the run, "" if none

vars ==
    <<csv, pc, clinics, ri, row, step, osm, loc, records, frames, all_metrics,
      scores, geomOps, error>>

km_label == Radii[ri]

Idle ==
    /\ clinics = <<>>
    /\ ri = 1
    /\ row = 1
    /\ step = "poly"
    /\ osm = NoAnswer
    /\ loc = NoLocals
    /\ records = <<>>
    /\ frames = <<>>
    /\ scores = <<>>
    /\ geomOps = {}
    /\ error = ""

\* line 77: both files are uploaded
Init ==
    /\ csv \in CsvInputs
    /\ pc = "load"
    /\ all_metrics = <<>>
    /\ Idle

\* compute_scores applied to a record set of its own
InitScore ==
    /\ csv = <<>>
    /\ pc = "score"
    /\ \E n \in 1..MaxRecords : \E rows \in [1..n -> ScoreRows] :
        all_metrics = ScoreInput(rows, n)
    /\ Idle

Raise(e) ==
    /\ pc' = "aborted"
    /\ error' = e

(***************************************************************************)
(* load_clinics, lines 32-41                                               *)
(***************************************************************************)
gdf_proj(df) ==
    [i \in 1..Len(df) |->
        LET geometry == to_crs(points_from_xy(df[i].long, df[i].lat), Projected)
        IN  [name |-> df[i].name,
             geometry |-> geometry,
             buffer |-> [label \in RadiusSet |-> buffer(geometry, label * 1000)]]]

\* GEOS given a non-finite point either returns an empty polygon or raises
LoadClinics ==
    /\ pc = "load"
    /\ \E raises \in BOOLEAN :
        LET g == gdf_proj(csv)
        IN  IF raises
            THEN /\ \E i \in 1..Len(g) : ~g[i].geometry.finite
                 /\ Raise("buffer")
                 /\ UNCHANGED <<clinics, geomOps>>
            ELSE /\ clinics' = g
                 /\ geomOps' = geomOps \cup
                        {[op |-> "buffer", crs |-> g[i].geometry.crs] : i \in 1..Len(g)}
                 /\ pc' = "extract"
                 /\ UNCHANGED error
    /\ UNCHANGED <<csv, ri, row, step, osm, loc, records, frames, all_metrics, scores>>

(***************************************************************************)
(* extract_osm_metrics, lines 44-64: one action per statement of the loop  *)
(* body.  Nothing in the function catches an exception, so one raised by a *)
(* library call ends the run.                                              *)
(***************************************************************************)
InLoop(s) ==
    /\ pc = "extract"
    /\ row <= Len(clinics)
    /\ step = s

Query(poly) == [op |-> "query", crs |-> poly.crs]

\* line 47: the buffer of this radius, reprojected for the queries; what
\* OpenStreetMap holds under it is fixed from here on
Reproject ==
    /\ InLoop("poly")
    /\ loc' = [NoLocals EXCEPT !.poly = to_crs(clinics[row].buffer[km_label], Geographic)]
    /\ osm' \in OsmAnswers
    /\ step' = "bldgs"
    /\ UNCHANGED <<csv, pc, clinics, ri, row, records, frames, all_metrics, scores,
                   geomOps, error>>

\* line 47 when the value in the row is a bare shapely geometry, which has
\* no to_crs: AttributeError
ReprojectRaises ==
    /\ InLoop("poly")
    /\ Raise("to_crs")
    /\ UNCHANGED <<csv, clinics, ri, row, step, osm, loc, records, frames,
                   all_metrics, scores, geomOps>>

\* line 48
QueryBuildings ==
    /\ InLoop("bldgs")
    /\ loc' = [loc EXCEPT !.bldgs = osm.buildings]
    /\ geomOps' = geomOps \cup {Query(loc.poly)}
    /\ step' = "comps"
    /\ UNCHANGED <<csv, pc, clinics, ri, row, osm, records, frames, all_metrics,
                   scores, error>>

\* line 49
QueryCompetitors ==
    /\ InLoop("comps")
    /\ loc' = [loc EXCEPT !.comps = osm.competitors]
    /\ geomOps' = geomOps \cup {Query(loc.poly)}
    /\ step' = "G"
    /\ UNCHANGED <<csv, pc, clinics, ri, row, osm, records, frames, all_metrics,
                   scores, error>>

\* lines 50-51: the drivable network and its total edge length in km
QueryGraph ==
    /\ InLoop("G")
    /\ loc' = [loc EXCEPT !.length_km = Rat(osm.road_m, 1000)]
    /\ geomOps' = geomOps \cup {Query(loc.poly)}
    /\ step' = "area"
    /\ UNCHANGED <<csv, pc, clinics, ri, row, osm, records, frames, all_metrics,
                   scores, error>>

\* line 52
ComputeArea ==
    /\ InLoop("area")
    /\ loc' = [loc EXCEPT !.area_km2 = Rat(area(areaGeometry(loc.poly)), 1000000)]
    /\ geomOps' = geomOps \cup {[op |-> "area", crs |-> areaGeometry(loc.poly).crs]}
    /\ step' = "schools"
    /\ UNCHANGED <<csv, pc, clinics, ri, row, osm, records, frames, all_metrics,
                   scores, error>>

\* line 53
QuerySchools ==
    /\ InLoop("schools")
    /\ loc' = [loc EXCEPT !.schools = osm.playschools]
    /\ geomOps' = geomOps \cup {Query(loc.poly)}
    /\ step' = "pts"
    /\ UNCHANGED <<csv, pc, clinics, ri, row, osm, records, frames, all_metrics,
                   scores, error>>

\* line 54
QueryTransit ==
    /\ InLoop("pts")
    /\ loc' = [loc EXCEPT !.pts = osm.public_transport]
    /\ geomOps' = geomOps \cup {Query(loc.poly)}
    /\ step' = "append"
    /\ UNCHANGED <<csv, pc, clinics, ri, row, osm, records, frames, all_metrics,
                   scores, error>>

\* lines 48-50, 53, 54: the query is issued and osmnx raises (the service is
\* unreachable, or nothing matches inside the polygon)
QueryRaises ==
    /\ \E s \in {"bldgs", "comps", "G", "schools", "pts"} :
        /\ InLoop(s)
        /\ Raise(s)
    /\ geomOps' = geomOps \cup {Query(loc.poly)}
    /\ UNCHANGED <<csv, clinics, ri, row, step, osm, loc, records, frames,
                   all_metrics, scores>>

\* lines 55-63
metric_record ==
    [clinic |-> clinics[row].name,
     radius_km |-> km_label,
     buildings |-> Rat(loc.bldgs, 1),
     competitors |-> Rat(loc.comps, 1),
     road_density |-> FDiv(loc.length_km, loc.area_km2),
     playschools |-> Rat(loc.schools, 1),
     public_transport |-> Rat(loc.pts, 1)]

\* a plausible slip: records.insert(0, ...)
appendFirst(recs, r) == <<r>> \o recs

\* line 55: records.append
append(recs, r) == Append(recs, r)

\* lines 55-63; length_km/area_km2 is a division of Python floats, which
\* raises ZeroDivisionError when area_km2 is 0
AppendRecord ==
    /\ InLoop("append")
    /\ IF loc.area_km2.n = 0
       THEN /\ Raise("ZeroDivisionError")
            /\ UNCHANGED <<records, row, step>>
       ELSE /\ records' = append(records, metric_record)
            /\ row' = row + 1
            /\ step' = "poly"
            /\ UNCHANGED <<pc, error>>
    /\ UNCHANGED <<csv, clinics, ri, osm, loc, frames, all_metrics, scores, geomOps>>

\* line 64, and the next element of the comprehension of line 86
ReturnFrame ==
    /\ pc = "extract"
    /\ row > Len(clinics)
    /\ frames' = Append(frames, records)
    /\ records' = <<>>
    /\ row' = 1
    /\ IF ri < Len(Radii)
       THEN ri' = ri + 1 /\ pc' = pc
       ELSE ri' = ri /\ pc' = "concat"
    /\ UNCHANGED <<csv, clinics, step, osm, loc, all_metrics, scores, geomOps, error>>

(***************************************************************************)
(* Main flow, lines 86-87                                                  *)
(***************************************************************************)
RECURSIVE concat(_)
\* pd.concat(..., ignore_index=True)
concat(fs) == IF fs = <<>> THEN <<>> ELSE Head(fs) \o concat(Tail(fs))

\* line 86
Concat ==
    /\ pc = "concat"
    /\ all_metrics' = concat(frames)
    /\ pc' = "score"
    /\ UNCHANGED <<csv, clinics, ri, row, step, osm, loc, records, frames, scores,
                   geomOps, error>>

\* line 87
Score ==
    /\ pc = "score"
    /\ scores' = compute_scores(all_metrics)
    /\ pc' = "done"
    /\ UNCHANGED <<csv, clinics, ri, row, step, osm, loc, records, frames,
                   all_metrics, geomOps, error>>

Next ==
    \/ LoadClinics
    \/ Reproject
    \/ ReprojectRaises
    \/ QueryBuildings
    \/ QueryCompetitors
    \/ QueryGraph
    \/ ComputeArea
    \/ QuerySchools
    \/ QueryTransit
    \/ QueryRaises
    \/ AppendRecord
    \/ ReturnFrame
    \/ Concat
    \/ Score

\* the dashboard run on an uploaded CSV
Spec == Init /\ [][Next]_vars

\* compute_scores on each record set of up to MaxRecords rows of ScoreRows
SpecScore == InitScore /\ [][Score]_vars

(***************************************************************************)
(* Properties                                                              *)
(***************************************************************************)
\* a CSV row whose coordinates are in range
InRange(c) == c.lat >= -90 /\ c.lat <= 90 /\ c.long >= -180 /\ c.long <= 180

\* the record set compute_scores is applied to, once it is
AtScoring == pc \in {"score", "done"}

Rows == 1..Len(all_metrics)

\* the normalised value behind a sub-score: the score column over the weight
Normalized(i, k) == FDiv(scores[i][ScoreCol(k)], weights[k])

Constant(k) == FEq(ColMin(all_metrics, k), ColMax(all_metrics, k))

Between(lo, x, hi) == FLeq(lo, x) /\ FLeq(x, hi)

\* C1: compute_scores is never applied to a record set that mixes radius
\* labels, so the min and max that normalise a record's metric are taken
\* over records of its own radius only.
C1_NeverMixesRadii ==
    AtScoring =>
        \A i \in Rows, j \in Rows : all_metrics[i].radius_km = all_metrics[j].radius_km

\* C2: a metric with the same value in every record (max == min) has
\* normalised value and sub-score exactly 0 in every record, never NaN.
C2_ConstantMetricScoresZero ==
    pc = "done" =>
        \A k \in MetricSet :
            Constant(k) =>
                \A i \in Rows :
                    /\ norm(all_metrics, k)[i] = Zero
                    /\ scores[i][ScoreCol(k)] = Zero

Greater(i) == {j \in Rows : FLess(scores[i].total_score, scores[j].total_score)}

Tied(i) == {j \in Rows : FEq(scores[i].total_score, scores[j].total_score)}

\* C3 as claimed: competition ranking, rank = 1 + the number of records with
\* a strictly greater total_score (1, 2, 2, 4).
C3_CompetitionRank ==
    pc = "done" => \A i \in Rows : scores[i].rank = Rat(1 + Cardinality(Greater(i)), 1)

RECURSIVE SumFromTo(_, _)
SumFromTo(lo, hi) == IF lo > hi THEN 0 ELSE hi + SumFromTo(lo, hi - 1)

\* C3 as amended: average ranking.  The records tied with record i occupy
\* the positions g+1 .. g+e of the descending order (g records are strictly
\* greater, e are equal, i included) and each gets the mean of those
\* positions; so ties share one rank, a greater total has a smaller rank, and
\* an untied record has rank 1 + g.
C3_AverageRank ==
    pc = "done" =>
        \A i \in Rows :
            LET g == Cardinality(Greater(i))
                e == Cardinality(Tied(i))
            IN  /\ FEq(FMul(scores[i].rank, Rat(e, 1)), Rat(SumFromTo(g + 1, g + e), 1))
                /\ \A j \in Tied(i) : scores[j].rank = scores[i].rank
                /\ \A j \in Greater(i) : FLess(scores[j].rank, scores[i].rank)
                /\ (e = 1 => scores[i].rank = Rat(1 + g, 1))

\* two records tied below a better one: ranks 1, 2.5, 2.5
C3_TieWitness ==
    /\ pc = "done"
    /\ \E i \in Rows, j \in Rows :
        /\ i # j
        /\ j \in Tied(i)
        /\ Cardinality(Greater(i)) = 1
        /\ scores[i].rank = Rat(5, 2)

\* C4: for a metric whose values are not all equal, every normalised value
\* lies in [0,1], a record holding the minimum gets exactly 0, one holding
\* the maximum exactly 1, and each sub-score lies between 0 and the weight.
C4_NormInUnitInterval ==
    pc = "done" =>
        \A k \in MetricSet :
            ~Constant(k) =>
                \A i \in Rows :
                    /\ Between(Zero, Normalized(i, k), Rat(1, 1))
                    /\ all_metrics[i][k] = ColMin(all_metrics, k) => Normalized(i, k) = Zero
                    /\ all_metrics[i][k] = ColMax(all_metrics, k) => Normalized(i, k) = Rat(1, 1)
                    /\ IF FLess(weights[k], Zero)
                       THEN Between(weights[k], scores[i][ScoreCol(k)], Zero)
                       ELSE Between(Zero, scores[i][ScoreCol(k)], weights[k])

\* a metric that varies, with the minimum, the maximum and a value strictly
\* between them present
C4_InteriorWitness ==
    /\ pc = "done"
    /\ \E k \in MetricSet, i \in Rows, lo \in Rows, hi \in Rows :
        /\ ~Constant(k)
        /\ Normalized(lo, k) = Zero
        /\ Normalized(hi, k) = Rat(1, 1)
        /\ FLess(Zero, Normalized(i, k))
        /\ FLess(Normalized(i, k), Rat(1, 1))

\* C5: each sub-score is the normalised value times the signed weight and
\* total_score is the sum of the record's five sub-scores.
C5_TotalIsSumOfSubScores ==
    pc = "done" =>
        \A i \in Rows :
            /\ \A k \in MetricSet :
                scores[i][ScoreCol(k)] = FMul(norm(all_metrics, k)[i], weights[k])
            /\ scores[i].total_score =
                   FAdd(scores[i].buildings_score,
                   FAdd(scores[i].competitors_score,
                   FAdd(scores[i].road_density_score,
                   FAdd(scores[i].playschools_score, scores[i].public_transport_score))))

\* the two-record example of C5: A (100, 1, 5.0, 2, 3) and B (50, 3, 2.0, 0, 1)
ExampleAB ==
    /\ Len(all_metrics) = 2
    /\ \A k \in MetricSet :
        /\ all_metrics[1][k] = Rat(<<100, 1, 5, 2, 3>>[CHOOSE j \in 1..5 : Metrics[j] = k], 1)
        /\ all_metrics[2][k] = Rat(<<50, 3, 2, 0, 1>>[CHOOSE j \in 1..5 : Metrics[j] = k], 1)

\* on that example A's competitors sub-score is 0 and B's -0.3, A's total is
\* the greater, A has rank 1 and B rank 2
C5_ExampleHolds ==
    (pc = "done" /\ ExampleAB) =>
        /\ scores[1].competitors_score = Zero
        /\ scores[2].competitors_score = Rat(-3, 10)
        /\ scores[1].total_score = Rat(7, 10)
        /\ scores[2].total_score = Rat(-3, 10)
        /\ scores[1].rank = Rat(1, 1)
        /\ scores[2].rank = Rat(2, 1)

\* C6: a buffer area <= 0 gives road_density null, never a division by zero
\* that raises or stops the extraction of the remaining records.
C6_NoDivisionByZero == ~(pc = "aborted" /\ error = "ZeroDivisionError")

\* C7: a failed drivable-network query does not abort the run.
C7_RoadQueryFailureDoesNotAbort == ~(pc = "aborted" /\ error = "G")

\* the (clinic, radius) pairs in the order C8 states: by radius, and within
\* a radius in the order of the CSV rows
ExpectedPairs ==
    [p \in 1..(Len(Radii) * Len(csv)) |->
        <<csv[((p - 1) % Len(csv)) + 1].name, Radii[((p - 1) \div Len(csv)) + 1]>>]

\* C8: the table handed to compute_scores holds exactly one record per
\* (location, radius) pair, ordered by radius (3, 5, 6) and within a radius
\* in the order the locations were supplied.
C8_OneRecordPerPairInOrder ==
    (AtScoring /\ csv # <<>>) =>
        [p \in Rows |-> <<all_metrics[p].clinic, all_metrics[p].radius_km>>] = ExpectedPairs

\* a table of several locations at every radius is about to be scored
C8_TableWitness ==
    /\ pc = "score"
    /\ Len(csv) > 1
    /\ Len(all_metrics) = Len(Radii) * Len(csv)

\* C9: a buffer is built and an area taken only on geometry in the projected
\* frame (EPSG:3857); every feature query is issued with a polygon in the
\* geographic frame (EPSG:4326).
C9_FrameDiscipline ==
    \A o \in geomOps :
        /\ o.op \in {"buffer", "area"} => o.crs = Projected
        /\ o.op = "query" => o.crs = Geographic

\* a buffer was built, the queries were issued and an area was taken
C9_AllOpsWitness ==
    /\ {o.op : o \in geomOps} = {"buffer", "area", "query"}
    /\ pc = "done"

\* C10: a location with latitude outside [-90, 90] or longitude outside
\* [-180, 180] gets no buffer, no query and no record.
C10_InvalidLocationRejected ==
    /\ \A i \in 1..Len(clinics) : InRange(csv[i])
    /\ (pc = "extract" /\ row <= Len(clinics) /\ step # "poly") => InRange(csv[row])
    /\ \A p \in Rows : \A i \in 1..Len(csv) :
        all_metrics[p].clinic = csv[i].name => InRange(csv[i])

====
